---- MODULE Spec2Model ----
(***************************************************************************)
(* A model of query.go of mtg-sdk-go: the query builder (a Go map behind   *)
(* the Query interface), the response decoder and the three fetch modes    *)
(* (All, Page/PageS, Random) run against a nondeterministic transport.     *)
(*                                                                         *)
(* Strings.  Query columns and values are atomic TLA+ strings.  A URL or a *)
(* header value is a sequence of tokens; a token is one significant        *)
(* character ("<", ">", ";", " ", ",", a quote, a digit, a sign) or a run  *)
(* of characters without significance to the code that reads it ("u1",     *)
(* "next", "rel=").  The empty Go string is the empty sequence.            *)
(***************************************************************************)
EXTENDS Integers, Sequences, FiniteSets, TLC

VARIABLES
    heap,      \* the query maps allocated so far; a Query value is an index
    nops,      \* operations invoked so far (bounded by MaxOps)
    prev,      \* the invocation before the current one
    call,      \* the current (most recent) invocation: operation and arguments
    pc,        \* "idle": no call in progress; "loop": inside All's for loop
    ret,       \* what the current invocation returned (done = FALSE: not yet)
    nextURL,   \* All: local nextURL
    allCards,  \* All: local allCards
    reqs,      \* URLs handed to http.Get by the current invocation, in order
    served,    \* responses http.Get gave the current invocation, in order
    copies,    \* the pairs <<q, c>> of every c = q.Copy() so far
    open       \* the i with the body of served[i] acquired and not yet closed

vars == <<heap, nops, prev, call, pc, ret, nextURL, allCards, reqs, served, copies,
          open>>

-----------------------------------------------------------------------------
(* Bounds of the model *)

MaxOps == 3       \* invocations in one run of Spec
MaxMaps == 2      \* query maps alive in one run of Spec
MaxReqs == 3      \* requests one All() may issue before the model stops it
MaxCards == 2     \* length of the list slot of a decoded body

-----------------------------------------------------------------------------
(* Go values *)

NoErr == "nil"
NoCard == "nil"
Cards == {"c1", "c2", "c3"}

\* []*Card: a nil slice and an empty non-nil slice are different values
NilSlice == [isNil |-> TRUE, elems |-> << >>]
Slice(s) == [isNil |-> FALSE, elems |-> s]

\* append(a, b...): nil stays nil when nothing is appended
AppendAll(a, b) ==
    [isNil |-> a.isNil /\ Len(b.elems) = 0, elems |-> a.elems \o b.elems]

Quote == "\""

-----------------------------------------------------------------------------
(* const queryURL *)

queryURL == "https://api.magicthegathering.io/v1/"

(* The catalogue of columns is open: Where takes any cardColumn, and an    *)
(* untyped string constant converts to cardColumn, so "page", "pageSize"   *)
(* and "random" are possible arguments beside the declared CardSet.        *)
CardSet == "set"
CardName == "name"
Columns == {CardSet, "page", "pageSize", "random"}
OrderColumns == {CardName, CardSet}
Values == {"Mythic Rare", "7"}

-----------------------------------------------------------------------------
(* net/url and strconv, as query.go uses them *)

\* url.Values is map[string][]string; Set(k, v) replaces the list of k by [v]
Set(vals, k, v) == (k :> <<v>>) @@ vals

\* for k, v := range q { queryVals.Set(k, v) } on a fresh url.Values
FromQuery(q) == [k \in DOMAIN q |-> <<q[k]>>]

\* the keys of the model in byte order, as Values.Encode sorts them
KeyOrder == <<"orderBy", "page", "pageSize", "random", "set">>
SortedKeys(S) == SelectSeq(KeyOrder, LAMBDA k : k \in S)

\* url.QueryEscape on the strings of the model: a space becomes "+"
QueryEscape(s) == IF s = "Mythic Rare" THEN "Mythic+Rare" ELSE s

\* the pairs k=v of one key, each followed by "&"
RECURSIVE EncodeKey(_, _)
EncodeKey(k, vs) ==
    IF vs = << >> THEN << >>
    ELSE <<QueryEscape(k), "=", QueryEscape(Head(vs)), "&">> \o EncodeKey(k, Tail(vs))

RECURSIVE EncodeKeys(_, _)
EncodeKeys(vals, keys) ==
    IF keys = << >> THEN << >>
    ELSE EncodeKey(Head(keys), vals[Head(keys)]) \o EncodeKeys(vals, Tail(keys))

\* Values.Encode: "k=v" pairs sorted by key and joined by "&"
Encode(vals) ==
    LET all == EncodeKeys(vals, SortedKeys(DOMAIN vals))
    IN  IF all = << >> THEN << >> ELSE SubSeq(all, 1, Len(all) - 1)

\* queryURL + "cards?" + queryVals.Encode()
CardsURL(vals) == <<queryURL, "cards?">> \o Encode(vals)

Digit == <<"0", "1", "2", "3", "4", "5", "6", "7", "8", "9">>

\* strconv.Itoa
RECURSIVE ItoaNat(_)
ItoaNat(n) ==
    IF n < 10 THEN Digit[n + 1] ELSE ItoaNat(n \div 10) \o Digit[(n % 10) + 1]
Itoa(n) == IF n < 0 THEN "-" \o ItoaNat(0 - n) ELSE ItoaNat(n)

DigitValue(c) == CHOOSE d \in 0..9 : Digit[d + 1] = c
IsDigit(c) == \E d \in 0..9 : Digit[d + 1] = c

RECURSIVE DigitsValue(_, _)
DigitsValue(s, acc) ==
    IF s = << >> THEN acc ELSE DigitsValue(Tail(s), acc * 10 + DigitValue(Head(s)))

\* strconv.Atoi on a sequence of characters: an optional sign, then one or
\* more decimal digits and nothing else (the values of the model stay far
\* below the range of int, so the range error is not reached)
Atoi(s) ==
    LET signed == s # << >> /\ Head(s) \in {"+", "-"}
        digits == IF signed THEN Tail(s) ELSE s
    IN  IF digits = << >> \/ \E i \in 1..Len(digits) : ~IsDigit(digits[i])
        THEN [val |-> 0, err |-> "strconv.Atoi: invalid syntax"]
        ELSE [val |-> IF signed /\ Head(s) = "-"
                      THEN 0 - DigitsValue(digits, 0) ELSE DigitsValue(digits, 0),
              err |-> NoErr]

-----------------------------------------------------------------------------
(* Link header parsing *)

\* strings.Split(s, sep) for a one-character separator
RECURSIVE Split(_, _)
Split(s, sep) ==
    IF \E i \in 1..Len(s) : s[i] = sep
    THEN LET i == CHOOSE i \in 1..Len(s) :
                      s[i] = sep /\ \A j \in 1..(i - 1) : s[j] # sep
         IN  <<SubSeq(s, 1, i - 1)>> \o Split(SubSeq(s, i + 1, Len(s)), sep)
    ELSE <<s>>

\* the literal between the two groups of linkRE: >; rel="
LinkLit == <<">", ";", " ", "rel=", Quote>>
LitAt(s, j) == j + Len(LinkLit) - 1 <= Len(s) /\ SubSeq(s, j, j + Len(LinkLit) - 1) = LinkLit

\* a match of <(.*)>; rel="(.*)" that starts at i with the literal at j
MatchAt(s, i, j) ==
    /\ s[i] = "<"
    /\ j > i
    /\ LitAt(s, j)
    /\ \E k \in (j + Len(LinkLit))..Len(s) : s[k] = Quote

Max(S) == CHOOSE x \in S : \A y \in S : y <= x
Min(S) == CHOOSE x \in S : \A y \in S : x <= y

\* linkRE.FindStringSubmatch(link): the leftmost match, both groups greedy;
\* << >> is Go's nil, otherwise <<match[0], match[1], match[2]>>
FindStringSubmatch(s) ==
    LET starts == {i \in 1..Len(s) : \E j \in 1..Len(s) : MatchAt(s, i, j)}
    IN  IF starts = {} THEN << >>
        ELSE LET i == Min(starts)
                 j == Max({x \in 1..Len(s) : MatchAt(s, i, x)})
                 k == Max({x \in (j + Len(LinkLit))..Len(s) : s[x] = Quote})
             IN  <<SubSeq(s, i, k),
                   SubSeq(s, i + 1, j - 1),
                   SubSeq(s, j + Len(LinkLit), k - 1)>>

\* a faulty scan: the first part with the relation next wins
RECURSIVE ScanLinksFirstWins(_, _)
ScanLinksFirstWins(parts, url) ==
    IF parts = << >> THEN url
    ELSE LET match == FindStringSubmatch(Head(parts))
         IN  ScanLinksFirstWins(Tail(parts),
                 IF url = << >> /\ match # << >> /\ match[3] = <<"next">>
                 THEN match[2] ELSE url)

\* for _, link := range parts { ... if match[2] == "next" { nextURL = match[1] } }
RECURSIVE ScanLinks(_, _)
ScanLinks(parts, url) ==
    IF parts = << >> THEN url
    ELSE LET match == FindStringSubmatch(Head(parts))
         IN  ScanLinks(Tail(parts),
                       IF match # << >> /\ match[3] = <<"next">> THEN match[2] ELSE url)

\* the Link values joined as one list, as a scan of every header line would
\* read them
RECURSIVE JoinValues(_)
JoinValues(vs) ==
    IF vs = << >> THEN << >>
    ELSE IF Len(vs) = 1 THEN vs[1]
    ELSE vs[1] \o <<",">> \o JoinValues(Tail(vs))

\* a faulty scan: every value of the Link header is read, not only linkH[0]
NextLinkEveryValue(header) ==
    IF "Link" \in DOMAIN header
    THEN ScanLinks(Split(JoinValues(header["Link"]), ","), << >>)
    ELSE << >>

\* nextURL = ""; if linkH, ok := header["Link"]; ok { split linkH[0], scan }
NextLink(header) ==
    IF "Link" \in DOMAIN header
    THEN ScanLinks(Split(header["Link"][1], ","), << >>)
    ELSE << >>

-----------------------------------------------------------------------------
(* The transport: what http.Get can hand back *)

\* sequences over S of length at most n
SeqsUpTo(S, n) == UNION {[1..m -> S] : m \in 0..n}

\* a response body.  read: io.ReadAll succeeds; valid: the bytes are JSON that
\* json.Unmarshal accepts for cardResponse; card, cards: the "card" and "cards"
\* members (absent or null: NoCard, NilSlice)
Body(read, valid, card, cards) ==
    [read |-> read, valid |-> valid, card |-> card, cards |-> cards]

JSONBodies ==
    {Body(TRUE, TRUE, c, l) :
        c \in Cards \cup {NoCard},
        l \in {NilSlice} \cup {Slice(s) : s \in SeqsUpTo(Cards, MaxCards)}}
Unreadable == Body(FALSE, FALSE, NoCard, NilSlice)
Malformed == Body(TRUE, FALSE, NoCard, NilSlice)
Bodies == JSONBodies \cup {Unreadable, Malformed}

\* <url>; rel="relation"
Lnk(url, relation) == <<"<">> \o url \o LinkLit \o <<relation, Quote>>
Comma == <<",", " ">>
U0 == <<"u0">>
U1 == <<"u1">>
U2 == <<"u2">>

\* values of the Link header: the list holds one string per header line
LinkHeaders ==
    { <<Lnk(U1, "next")>>,
      <<Lnk(U0, "prev")>>,
      <<Lnk(U0, "prev") \o Comma \o Lnk(U1, "next")>>,
      <<Lnk(U2, "next") \o Comma \o Lnk(U0, "last")>>,
      <<Lnk(U1, "next") \o Comma \o Lnk(U2, "next")>>,
      <<Lnk(U1, "next") \o Comma \o Lnk(<< >>, "next")>>,
      <<Lnk(U0, "prev"), Lnk(U1, "next")>>,
      <<Lnk(<< >>, "next")>>,
      <<Lnk(U1, "next") \o <<";", " ", "title=", Quote, "t", Quote>> >>,
      <<Lnk(U1, "next") \o <<";", " ", "foo=bar">> >>,
      <<U1>> }

\* values of the Total-Count header
TotalCounts ==
    { << <<"4", "2">> >>,
      << <<"0">> >>,
      << <<"+", "7">> >>,
      << <<"x">> >>,
      << <<"4", "2", "x">> >>,
      << << >> >>,
      << <<"7">>, <<"x">> >> }

NoHeader == << >>
Headers ==
    {NoHeader}
    \cup {("Link" :> l) : l \in LinkHeaders}
    \cup {("Total-Count" :> t) : t \in TotalCounts}
    \cup {("Link" :> l) @@ ("Total-Count" :> t) :
            l \in {<<Lnk(U1, "next")>>}, t \in TotalCounts}

Response(err, status, header, body) ==
    [err |-> err, status |-> status, header |-> header, body |-> body]

\* http.Get failed: no response at all
TransportFailure == Response("TransportError", 0, NoHeader, Unreadable)

\* the bodies the fetch modes are run against
PageBodies ==
    { Body(TRUE, TRUE, NoCard, Slice(<<"c1", "c2">>)),
      Body(TRUE, TRUE, NoCard, Slice(<<"c2">>)),
      Body(TRUE, TRUE, NoCard, Slice(<< >>)),
      Body(TRUE, TRUE, "c1", NilSlice) }

Responses ==
    {TransportFailure}
    \cup {Response(NoErr, 404, NoHeader, Body(TRUE, TRUE, NoCard, NilSlice))}
    \cup {Response(NoErr, 200, NoHeader, b) : b \in {Unreadable, Malformed}}
    \cup {Response(NoErr, 200, h, b) : h \in Headers, b \in PageBodies}

-----------------------------------------------------------------------------
(* fetchCards and decodeCards *)

\* checkError(resp): a status outside the success range is an API error
checkError(resp) ==
    IF resp.status \in 200..299 THEN NoErr ELSE "APIError"

\* json.Unmarshal(asBytes, &cardResp)
Unmarshal(body) ==
    IF body.valid
    THEN [Card |-> body.card, Cards |-> body.cards, err |-> NoErr]
    ELSE [Card |-> NoCard, Cards |-> NilSlice, err |-> "DecodeError"]

\* a faulty decodeCards: a populated list slot goes before the single record
decodeCardsListFirst(reader) ==
    IF ~reader.read THEN [cards |-> NilSlice, err |-> "ReadError"]
    ELSE LET cardResp == Unmarshal(reader)
         IN  IF cardResp.err # NoErr THEN [cards |-> NilSlice, err |-> cardResp.err]
             ELSE IF cardResp.Card # NoCard /\ cardResp.Cards.isNil
                  THEN [cards |-> Slice(<<cardResp.Card>>), err |-> NoErr]
                  ELSE [cards |-> cardResp.Cards, err |-> NoErr]

\* a faulty decodeCards: a nil list slot is returned as an empty list
decodeCardsNeverNil(reader) ==
    IF ~reader.read THEN [cards |-> NilSlice, err |-> "ReadError"]
    ELSE LET cardResp == Unmarshal(reader)
         IN  IF cardResp.err # NoErr THEN [cards |-> NilSlice, err |-> cardResp.err]
             ELSE IF cardResp.Card # NoCard
                  THEN [cards |-> Slice(<<cardResp.Card>>), err |-> NoErr]
                  ELSE [cards |-> Slice(cardResp.Cards.elems), err |-> NoErr]

\* decodeCards(reader): [cards, err]
decodeCards(reader) ==
    IF ~reader.read THEN [cards |-> NilSlice, err |-> "ReadError"]
    ELSE LET cardResp == Unmarshal(reader)
         IN  IF cardResp.err # NoErr THEN [cards |-> NilSlice, err |-> cardResp.err]
             ELSE IF cardResp.Card # NoCard
                  THEN [cards |-> Slice(<<cardResp.Card>>), err |-> NoErr]
                  ELSE [cards |-> cardResp.Cards, err |-> NoErr]

\* a faulty fetchCards: bdy.Close() is called at the end of the success path
\* only, not deferred
fetchCardsCloseOnSuccess(resp) ==
    IF resp.err # NoErr
    THEN [cards |-> NilSlice, header |-> NoHeader, err |-> resp.err,
          opened |-> FALSE, closed |-> FALSE]
    ELSE IF checkError(resp) # NoErr
         THEN [cards |-> NilSlice, header |-> NoHeader, err |-> checkError(resp),
               opened |-> TRUE, closed |-> FALSE]
         ELSE LET d == decodeCards(resp.body)
              IN  IF d.err # NoErr
                  THEN [cards |-> NilSlice, header |-> NoHeader, err |-> d.err,
                        opened |-> TRUE, closed |-> FALSE]
                  ELSE [cards |-> d.cards, header |-> resp.header, err |-> NoErr,
                        opened |-> TRUE, closed |-> TRUE]

\* fetchCards(url), given the response http.Get(url) hands back:
\* [cards, header, err]; opened, closed: the response body was acquired, and
\* released before the return (defer bdy.Close())
fetchCards(resp) ==
    IF resp.err # NoErr
    THEN [cards |-> NilSlice, header |-> NoHeader, err |-> resp.err,
          opened |-> FALSE, closed |-> FALSE]
    ELSE IF checkError(resp) # NoErr
         THEN [cards |-> NilSlice, header |-> NoHeader, err |-> checkError(resp),
               opened |-> TRUE, closed |-> TRUE]
         ELSE LET d == decodeCards(resp.body)
              IN  IF d.err # NoErr
                  THEN [cards |-> NilSlice, header |-> NoHeader, err |-> d.err,
                        opened |-> TRUE, closed |-> TRUE]
                  ELSE [cards |-> d.cards, header |-> resp.header, err |-> NoErr,
                        opened |-> TRUE, closed |-> TRUE]

\* the body of the i-th response of the call, if fetchCards returned with it
\* acquired (bdy := resp.Body) and not closed
StillOpen(f, i) == IF f.opened /\ ~f.closed THEN {i} ELSE {}

-----------------------------------------------------------------------------
(* Invocations and their return values *)

Call(op, q, column, value, pageNum, pageSize) ==
    [op |-> op, q |-> q, column |-> column, value |-> value,
     pageNum |-> pageNum, pageSize |-> pageSize]
NoCall == Call("none", 0, "", "", 0, 0)

\* q: the Query handle returned (0: none); cards, count, err: the results
Ret(q, cards, count, err) ==
    [done |-> TRUE, q |-> q, cards |-> cards, count |-> count, err |-> err]
Pending == [done |-> FALSE, q |-> 0, cards |-> NilSlice, count |-> 0, err |-> NoErr]

\* make(query)
EmptyQuery == << >>

\* a new invocation starts: its locals and its request log are fresh
Begin(c) ==
    /\ pc = "idle"
    /\ nops < MaxOps
    /\ nops' = nops + 1
    /\ prev' = call
    /\ call' = c

NoLocals ==
    /\ nextURL' = << >>
    /\ allCards' = NilSlice
    /\ reqs' = << >>
    /\ served' = << >>
    /\ open' = {}

-----------------------------------------------------------------------------
(* Query builder *)

\* a faulty Where: an attribute already set keeps its value
WhereMapKeepFirst(q, column, qry) == q @@ (column :> qry)

\* q[string(column)] = qry
WhereMap(q, column, qry) == (column :> qry) @@ q

\* q["orderBy"] = string(column)
OrderByMap(q, column) == ("orderBy" :> column) @@ q

\* r := make(query); for k, v := range q { r[k] = v }
CopyMap(q) == [k \in DOMAIN q |-> q[k]]

NewQuery ==
    /\ Begin(Call("NewQuery", 0, "", "", 0, 0))
    /\ Len(heap) < MaxMaps
    /\ heap' = Append(heap, EmptyQuery)
    /\ ret' = Ret(Len(heap) + 1, NilSlice, 0, NoErr)
    /\ pc' = "idle"
    /\ NoLocals
    /\ UNCHANGED copies

\* a faulty Where: it writes into a copy of q and returns the copy
WhereCopy(q, column, qry) ==
    /\ Begin(Call("Where", q, column, qry, 0, 0))
    /\ Len(heap) < MaxMaps
    /\ heap' = Append(heap, WhereMap(CopyMap(heap[q]), column, qry))
    /\ ret' = Ret(Len(heap) + 1, NilSlice, 0, NoErr)
    /\ pc' = "idle"
    /\ NoLocals
    /\ UNCHANGED copies

Where(q, column, qry) ==
    /\ Begin(Call("Where", q, column, qry, 0, 0))
    /\ heap' = [heap EXCEPT ![q] = WhereMap(heap[q], column, qry)]
    /\ ret' = Ret(q, NilSlice, 0, NoErr)
    /\ pc' = "idle"
    /\ NoLocals
    /\ UNCHANGED copies

OrderBy(q, column) ==
    /\ Begin(Call("OrderBy", q, column, "", 0, 0))
    /\ heap' = [heap EXCEPT ![q] = OrderByMap(heap[q], column)]
    /\ ret' = Ret(q, NilSlice, 0, NoErr)
    /\ pc' = "idle"
    /\ NoLocals
    /\ UNCHANGED copies

\* a faulty Copy: return q, the receiver itself
CopyAliased(q) ==
    /\ Begin(Call("Copy", q, "", "", 0, 0))
    /\ ret' = Ret(q, NilSlice, 0, NoErr)
    /\ copies' = copies \cup {<<q, q>>}
    /\ pc' = "idle"
    /\ NoLocals
    /\ UNCHANGED heap

Copy(q) ==
    /\ Begin(Call("Copy", q, "", "", 0, 0))
    /\ Len(heap) < MaxMaps
    /\ heap' = Append(heap, CopyMap(heap[q]))
    /\ ret' = Ret(Len(heap) + 1, NilSlice, 0, NoErr)
    /\ copies' = copies \cup {<<q, Len(heap) + 1>>}
    /\ pc' = "idle"
    /\ NoLocals

-----------------------------------------------------------------------------
(* All *)

\* lines 181-187: allCards is nil, nextURL is the URL of the persisted query
All(q) ==
    /\ Begin(Call("All", q, "", "", 0, 0))
    /\ nextURL' = CardsURL(FromQuery(heap[q]))
    /\ allCards' = NilSlice
    /\ reqs' = << >>
    /\ served' = << >>
    /\ open' = {}
    /\ ret' = Pending
    /\ pc' = "loop"
    /\ UNCHANGED <<heap, copies>>

\* a faulty error return: return allCards, err
AllFailPartial(all, err) == Ret(0, all, 0, err)

\* lines 190-192: return nil, err
AllFail(all, err) == Ret(0, NilSlice, 0, err)

\* a faulty aggregation: the new page goes before the earlier ones
AfterFetchPrepend(all, f) ==
    [nextURL |-> NextLink(f.header), allCards |-> AppendAll(f.cards, all)]

\* a faulty loop: a page without records ends the drain
AfterFetchStopOnEmpty(all, f) ==
    [nextURL |-> IF Len(f.cards.elems) = 0 THEN << >> ELSE NextLink(f.header),
     allCards |-> AppendAll(all, f.cards)]

\* a faulty loop: a client-side bound of two requests for one drain
AfterFetchTwoRequests(all, f) ==
    [nextURL |-> IF Len(reqs) >= 1 THEN << >> ELSE NextLink(f.header),
     allCards |-> AppendAll(all, f.cards)]

\* lines 195-208: the locals after a page was fetched
AfterFetch(all, f) ==
    [nextURL |-> NextLink(f.header), allCards |-> AppendAll(all, f.cards)]

\* a faulty loop: a failed fetch is tried again (continue for return nil, err)
AllFetchRetry(resp) ==
    /\ pc = "loop"
    /\ nextURL # << >>
    /\ Len(reqs) < MaxReqs
    /\ reqs' = Append(reqs, nextURL)
    /\ served' = Append(served, resp)
    /\ open' = open \cup StillOpen(fetchCards(resp), Len(served) + 1)
    /\ LET f == fetchCards(resp)
       IN  IF f.err # NoErr
           THEN UNCHANGED <<ret, pc, nextURL, allCards>>
           ELSE /\ nextURL' = AfterFetch(allCards, f).nextURL
                /\ allCards' = AfterFetch(allCards, f).allCards
                /\ UNCHANGED <<ret, pc>>
    /\ UNCHANGED <<heap, nops, prev, call, copies>>

\* lines 188-209: one iteration of for nextURL != "", resp being what
\* http.Get(nextURL) hands back
AllFetch(resp) ==
    /\ pc = "loop"
    /\ nextURL # << >>
    /\ Len(reqs) < MaxReqs
    /\ reqs' = Append(reqs, nextURL)
    /\ served' = Append(served, resp)
    /\ open' = open \cup StillOpen(fetchCards(resp), Len(served) + 1)
    /\ LET f == fetchCards(resp)
       IN  IF f.err # NoErr
           THEN /\ ret' = AllFail(allCards, f.err)
                /\ pc' = "idle"
                /\ UNCHANGED <<nextURL, allCards>>
           ELSE /\ nextURL' = AfterFetch(allCards, f).nextURL
                /\ allCards' = AfterFetch(allCards, f).allCards
                /\ UNCHANGED <<ret, pc>>
    /\ UNCHANGED <<heap, nops, prev, call, copies>>

\* line 210: the loop condition fails, return allCards, nil
AllReturn ==
    /\ pc = "loop"
    /\ nextURL = << >>
    /\ ret' = Ret(0, allCards, 0, NoErr)
    /\ pc' = "idle"
    /\ UNCHANGED <<heap, nops, prev, call, nextURL, allCards, reqs, served, copies,
                   open>>

-----------------------------------------------------------------------------
(* PageS, Page, Random *)

DefaultPageSize == 100

\* url.Values.Add(k, v): v is appended to the list of k
Add(vals, k, v) ==
    (k :> ((IF k \in DOMAIN vals THEN vals[k] ELSE << >>) \o <<v>>)) @@ vals

\* a faulty PageS: page and pageSize are added to queryVals, not set
PageSURLAdd(q, pageNum, pageSize) ==
    CardsURL(Add(Add(FromQuery(q), "page", Itoa(pageNum)), "pageSize", Itoa(pageSize)))

\* lines 221-229 of PageS: the URL of the request
PageSURL(q, pageNum, pageSize) ==
    CardsURL(Set(Set(FromQuery(q), "page", Itoa(pageNum)), "pageSize", Itoa(pageSize)))

\* a faulty PageS: the count is always len(cards)
PageSRetLen(f) ==
    IF f.err # NoErr THEN Ret(0, NilSlice, 0, f.err)
    ELSE Ret(0, f.cards, Len(f.cards.elems), NoErr)

\* a faulty PageS: a Total-Count that does not parse returns cards, 0, err
PageSRetKeepCards(f) ==
    IF f.err # NoErr THEN Ret(0, NilSlice, 0, f.err)
    ELSE IF "Total-Count" \in DOMAIN f.header /\ Len(f.header["Total-Count"]) > 0
         THEN LET n == Atoi(f.header["Total-Count"][1])
              IN  IF n.err # NoErr THEN Ret(0, f.cards, 0, n.err)
                  ELSE Ret(0, f.cards, n.val, NoErr)
         ELSE Ret(0, f.cards, Len(f.cards.elems), NoErr)

\* lines 230-242 of PageS: the results, given what fetchCards returned
PageSRet(f) ==
    IF f.err # NoErr THEN Ret(0, NilSlice, 0, f.err)
    ELSE IF "Total-Count" \in DOMAIN f.header /\ Len(f.header["Total-Count"]) > 0
         THEN LET n == Atoi(f.header["Total-Count"][1])
              IN  IF n.err # NoErr THEN Ret(0, NilSlice, 0, n.err)
                  ELSE Ret(0, f.cards, n.val, NoErr)
         ELSE Ret(0, f.cards, Len(f.cards.elems), NoErr)

\* one request and its answer
OneFetch(url, resp) ==
    /\ reqs' = <<url>>
    /\ served' = <<resp>>
    /\ open' = StillOpen(fetchCards(resp), 1)
    /\ nextURL' = << >>
    /\ allCards' = NilSlice
    /\ pc' = "idle"
    /\ UNCHANGED <<heap, copies>>

\* a faulty PageS: page and pageSize are written into q itself
PageSPersist(q, pageNum, pageSize, resp) ==
    /\ Begin(Call("PageS", q, "", "", pageNum, pageSize))
    /\ reqs' = <<PageSURL(heap[q], pageNum, pageSize)>>
    /\ served' = <<resp>>
    /\ open' = StillOpen(fetchCards(resp), 1)
    /\ nextURL' = << >>
    /\ allCards' = NilSlice
    /\ pc' = "idle"
    /\ heap' = [heap EXCEPT ![q] =
                   WhereMap(WhereMap(heap[q], "page", Itoa(pageNum)),
                            "pageSize", Itoa(pageSize))]
    /\ ret' = PageSRet(fetchCards(resp))
    /\ UNCHANGED copies

PageS(q, pageNum, pageSize, resp) ==
    /\ Begin(Call("PageS", q, "", "", pageNum, pageSize))
    /\ OneFetch(PageSURL(heap[q], pageNum, pageSize), resp)
    /\ ret' = PageSRet(fetchCards(resp))

\* a faulty Page: it delegates with a page size of 50
PageHalfSize(q, pageNum, resp) ==
    /\ Begin(Call("Page", q, "", "", pageNum, 0))
    /\ OneFetch(PageSURL(heap[q], pageNum, 50), resp)
    /\ ret' = PageSRet(fetchCards(resp))

\* return q.PageS(pageNum, 100)
Page(q, pageNum, resp) ==
    /\ Begin(Call("Page", q, "", "", pageNum, 0))
    /\ OneFetch(PageSURL(heap[q], pageNum, DefaultPageSize), resp)
    /\ ret' = PageSRet(fetchCards(resp))

\* lines 247-255 of Random: the URL of the request
RandomURL(q, count) ==
    CardsURL(Set(Set(FromQuery(q), "random", "true"), "pageSize", Itoa(count)))

\* a faulty Random: the Total-Count header is read as in PageS
RandomRetCounted(f) == Ret(0, PageSRet(f).cards, 0, PageSRet(f).err)

\* return cards, err
RandomRet(f) == Ret(0, f.cards, 0, f.err)

\* a faulty Random: random and pageSize are written into q itself
RandomPersist(q, count, resp) ==
    /\ Begin(Call("Random", q, "", "", 0, count))
    /\ reqs' = <<RandomURL(heap[q], count)>>
    /\ served' = <<resp>>
    /\ open' = StillOpen(fetchCards(resp), 1)
    /\ nextURL' = << >>
    /\ allCards' = NilSlice
    /\ pc' = "idle"
    /\ heap' = [heap EXCEPT ![q] =
                   WhereMap(WhereMap(heap[q], "random", "true"), "pageSize", Itoa(count))]
    /\ ret' = RandomRet(fetchCards(resp))
    /\ UNCHANGED copies

Random(q, count, resp) ==
    /\ Begin(Call("Random", q, "", "", 0, count))
    /\ OneFetch(RandomURL(heap[q], count), resp)
    /\ ret' = RandomRet(fetchCards(resp))

-----------------------------------------------------------------------------
(* Spec: any sequence of invocations on the queries built so far *)

PageNums == {1, 2}
PageSizes == {50, 100}
Counts == {10}

\* what the transport answers in Spec
SomeResponses ==
    { TransportFailure,
      Response(NoErr, 404, NoHeader, Body(TRUE, TRUE, NoCard, NilSlice)),
      Response(NoErr, 200, ("Link" :> <<Lnk(U1, "next")>>) @@ ("Total-Count" :> << <<"4", "2">> >>),
               Body(TRUE, TRUE, NoCard, Slice(<<"c1", "c2">>))),
      Response(NoErr, 200, ("Total-Count" :> << <<"x">> >>),
               Body(TRUE, TRUE, NoCard, Slice(<<"c2">>))),
      Response(NoErr, 200, NoHeader, Body(TRUE, TRUE, NoCard, Slice(<< >>))) }

Init ==
    /\ heap = <<EmptyQuery>>
    /\ nops = 0
    /\ prev = NoCall
    /\ call = Call("NewQuery", 0, "", "", 0, 0)
    /\ pc = "idle"
    /\ ret = Ret(1, NilSlice, 0, NoErr)
    /\ nextURL = << >>
    /\ allCards = NilSlice
    /\ reqs = << >>
    /\ served = << >>
    /\ copies = {}
    /\ open = {}

Queries == 1..Len(heap)

Next ==
    \/ NewQuery
    \/ \E q \in Queries, column \in Columns, qry \in Values : Where(q, column, qry)
    \/ \E q \in Queries, column \in OrderColumns : OrderBy(q, column)
    \/ \E q \in Queries : Copy(q)
    \/ \E q \in Queries : All(q)
    \/ \E resp \in SomeResponses : AllFetch(resp)
    \/ AllReturn
    \/ \E q \in Queries, n \in PageNums, s \in PageSizes, resp \in SomeResponses :
          PageS(q, n, s, resp)
    \/ \E q \in Queries, n \in PageNums, resp \in SomeResponses : Page(q, n, resp)
    \/ \E q \in Queries, c \in Counts, resp \in SomeResponses : Random(q, c, resp)

Spec == Init /\ [][Next]_vars

-----------------------------------------------------------------------------
(* SpecDrain: one All() on a query built earlier, against every response *)

BuiltQueries ==
    { EmptyQuery,
      (CardSet :> "Mythic Rare"),
      ("page" :> "7") @@ ("orderBy" :> CardName),
      ("pageSize" :> "7") @@ (CardSet :> "Mythic Rare") }

\* the responses of the transport without the Total-Count variants
DrainHeaders ==
    {NoHeader}
    \cup {("Link" :> l) : l \in LinkHeaders}
    \cup {("Link" :> <<Lnk(U1, "next")>>) @@ ("Total-Count" :> << <<"4", "2">> >>)}
DrainBodies ==
    { Body(TRUE, TRUE, NoCard, Slice(<<"c1", "c2">>)),
      Body(TRUE, TRUE, NoCard, Slice(<< >>)),
      Body(TRUE, TRUE, "c3", NilSlice) }
DrainResponses ==
    {r \in Responses : r.status # 200 \/ ~r.body.valid}
    \cup {Response(NoErr, 200, h, b) : h \in DrainHeaders, b \in DrainBodies}

\* the queries All() is run on
DrainQueries ==
    { EmptyQuery,
      ("page" :> "7") @@ ("orderBy" :> CardName) }

\* a query of qs was built, and nothing was fetched yet
InitWith(qs) ==
    /\ heap \in {<<q>> : q \in qs}
    /\ nops = 0
    /\ prev = NoCall
    /\ call = NoCall
    /\ pc = "idle"
    /\ ret = Ret(1, NilSlice, 0, NoErr)
    /\ nextURL = << >>
    /\ allCards = NilSlice
    /\ reqs = << >>
    /\ served = << >>
    /\ copies = {}
    /\ open = {}

InitDrain == InitWith(DrainQueries)

NextDrain ==
    \/ nops = 0 /\ All(1)
    \/ \E resp \in DrainResponses : AllFetch(resp)
    \/ AllReturn

SpecDrain == InitDrain /\ [][NextDrain]_vars

(* SpecPage: one PageS, Page or Random on a query built earlier *)

NextPage ==
    \/ \E n \in PageNums, s \in PageSizes, resp \in Responses :
          nops = 0 /\ PageS(1, n, s, resp)
    \/ \E n \in PageNums, resp \in Responses : nops = 0 /\ Page(1, n, resp)
    \/ \E c \in Counts, resp \in Responses : nops = 0 /\ Random(1, c, resp)

InitPage == InitWith(BuiltQueries)

SpecPage == InitPage /\ [][NextPage]_vars

(* SpecFetch: one All, PageS, Page or Random on a query built earlier,      *)
(* against every exit path of fetchCards and every shape of Link header.  *)
(* All() is sequential code: once its loop condition fails it returns,    *)
(* which is the one fairness assumed.  http.Get is given no deadline, so  *)
(* nothing is assumed of the transport.                                    *)

Title == <<";", " ", "title=", Quote, "t", Quote>>

\* further values of the Link header
MoreLinkHeaders ==
    { <<Lnk(U2, "next") \o Comma \o Lnk(U1, "next")>>,
      <<Lnk(U1, "next") \o Comma \o Lnk(U2, "next") \o Title>>,
      <<Lnk(U1, "next") \o Comma \o Lnk(U0, "prev") \o Comma \o Lnk(U2, "next")>>,
      <<Lnk(U1, "next"), Lnk(U2, "next")>>,
      <<Lnk(U0, "prev"), Lnk(U2, "last"), Lnk(U1, "next")>>,
      <<U1, Lnk(U2, "next")>> }

FetchResponses ==
    {r \in Responses : r.status # 200 \/ ~r.body.valid}
    \cup {Response(NoErr, 200, ("Link" :> l), Body(TRUE, TRUE, NoCard, Slice(<<"c1">>))) :
            l \in LinkHeaders \cup MoreLinkHeaders}
    \cup {Response(NoErr, 200, NoHeader, b) :
            b \in {Body(TRUE, TRUE, NoCard, Slice(<< >>)), Body(TRUE, TRUE, "c3", NilSlice)}}

InitFetch == InitWith(DrainQueries)

NextFetch ==
    \/ nops = 0 /\ All(1)
    \/ \E resp \in FetchResponses : AllFetch(resp)
    \/ AllReturn
    \/ \E n \in PageNums, s \in PageSizes, resp \in FetchResponses :
          nops = 0 /\ PageS(1, n, s, resp)
    \/ \E n \in PageNums, resp \in FetchResponses : nops = 0 /\ Page(1, n, resp)
    \/ \E c \in Counts, resp \in FetchResponses : nops = 0 /\ Random(1, c, resp)

SpecFetch == InitFetch /\ [][NextFetch]_vars /\ WF_vars(AllReturn)

(* SpecDecode: decodeCards applied to every body *)

InitDecode ==
    /\ heap = << >>
    /\ nops = 0
    /\ prev = NoCall
    /\ call = NoCall
    /\ pc = "idle"
    /\ ret = Pending
    /\ nextURL = << >>
    /\ allCards = NilSlice
    /\ reqs = << >>
    /\ served \in {<<Response(NoErr, 200, NoHeader, b)>> : b \in Bodies}
    /\ copies = {}
    /\ open = {}

Decode ==
    /\ call = NoCall
    /\ call' = Call("decodeCards", 0, "", "", 0, 0)
    /\ LET d == decodeCards(served[1].body)
       IN  ret' = Ret(0, d.cards, 0, d.err)
    /\ UNCHANGED <<heap, nops, prev, pc, nextURL, allCards, reqs, served, copies, open>>

SpecDecode == InitDecode /\ [][Decode]_vars

-----------------------------------------------------------------------------
(* What the claims speak of, stated without the operators of the code *)

Last(s) == s[Len(s)]

\* the fetch of this response yields records
Succeeds(r) ==
    r.err = NoErr /\ r.status \in 200..299 /\ r.body.read /\ r.body.valid

\* the error of a fetch that fails
ErrorOf(r) ==
    IF r.err # NoErr THEN r.err
    ELSE IF r.status \notin 200..299 THEN "APIError"
    ELSE IF ~r.body.read THEN "ReadError"
    ELSE "DecodeError"

\* the records of a page
Records(r) == IF r.body.card # NoCard THEN <<r.body.card>> ELSE r.body.cards.elems

\* the records of pages 1..n, in page order
RECURSIVE Concat(_, _)
Concat(pages, n) == IF n = 0 THEN << >> ELSE Concat(pages, n - 1) \o Records(pages[n])

\* a string without its leading spaces
RECURSIVE TrimLeft(_)
TrimLeft(s) == IF s # << >> /\ Head(s) = " " THEN TrimLeft(Tail(s)) ELSE s

LinkURLs == {<< >>, U0, U1, U2}

\* the comma-separated entries <url>; rel="relation" of a header value
EntriesOf(value) ==
    LET parts == Split(value, ",")
    IN  {TrimLeft(parts[i]) : i \in 1..Len(parts)}

\* an entry <url>; rel="next" with a URL, alone or followed by further
\* parameters
IsNextEntry(e) ==
    \E u \in LinkURLs \ {<< >>} :
        LET l == Lnk(u, "next")
        IN  /\ Len(e) >= Len(l)
            /\ SubSeq(e, 1, Len(l)) = l
            /\ Len(e) > Len(l) => e[Len(l) + 1] = ";"

\* the page's Link header has an entry with rel="next", in any of its values
HasNextEntry(r) ==
    /\ "Link" \in DOMAIN r.header
    /\ \E i \in 1..Len(r.header["Link"]) :
          \E e \in EntriesOf(r.header["Link"][i]) : IsNextEntry(e)

\* the places of a token in a string
Places(s, c) == {i \in 1..Len(s) : s[i] = c}

\* the part reads ...<url>; rel="relation"... : the url runs from the part's
\* first "<" to the last >; rel=" that a double quote follows, the relation
\* from there to the part's last double quote.  NoLink when it reads otherwise.
NoLink == [found |-> FALSE, url |-> << >>, relation |-> << >>]
LinkOf(part) ==
    LET quotes == Places(part, Quote)
        rels == {j \in Places(part, ">") :
                    /\ j + 5 <= Len(part)
                    /\ <<part[j + 1], part[j + 2], part[j + 3], part[j + 4]>>
                          = <<";", " ", "rel=", Quote>>
                    /\ \E k \in quotes : k >= j + 5
                    /\ \E i \in Places(part, "<") : i < j}
    IN  IF rels = {} THEN NoLink
        ELSE LET j == Max(rels)
             IN  [found |-> TRUE,
                  url |-> SubSeq(part, Min(Places(part, "<")) + 1, j - 1),
                  relation |-> SubSeq(part, j + 5, Max(quotes) - 1)]

\* the page links on: of the comma-separated parts of the first value of its
\* Link header that read <url>; rel="next", the last one has a URL that is
\* not empty
LinksOn(r) ==
    /\ "Link" \in DOMAIN r.header
    /\ LET parts == Split(r.header["Link"][1], ",")
           nexts == {i \in 1..Len(parts) :
                        LinkOf(parts[i]).found /\ LinkOf(parts[i]).relation = <<"next">>}
       IN  nexts # {} /\ LinkOf(parts[Max(nexts)]).url # << >>

\* the parameters of a request URL, as the server parses them
Unescape(s) == IF s = "Mythic+Rare" THEN "Mythic Rare" ELSE s
RECURSIVE ParsePairs(_)
ParsePairs(s) ==
    IF Len(s) < 3 THEN << >>
    ELSE (Unescape(s[1]) :> Unescape(s[3])) @@ ParsePairs(SubSeq(s, 5, Len(s)))
ParamsOf(url) == ParsePairs(SubSeq(url, 3, Len(url)))
IsCardsURL(url) ==
    /\ Len(url) >= 2 /\ url[1] = queryURL /\ url[2] = "cards?"
    /\ \A i \in 3..Len(url) :
          /\ (i % 4 = 0 => url[i] = "=")
          /\ (i % 4 = 2 => url[i] = "&")
          /\ (i % 4 \in {1, 3} => url[i] \notin {"=", "&"})
    /\ Len(url) > 2 => Len(url) % 4 = 1
    /\ \A i, j \in 3..Len(url) : (i % 4 = 3 /\ j % 4 = 3 /\ i # j) => url[i] # url[j]

\* the decimal numerals of the arguments of the model
Decimal == (1 :> "1") @@ (2 :> "2") @@ (10 :> "10") @@ (50 :> "50") @@ (100 :> "100")

\* the integers the Total-Count values of the model denote
Numerals ==
    (<<"4", "2">> :> 42) @@ (<<"0">> :> 0) @@ (<<"+", "7">> :> 7) @@ (<<"7">> :> 7)
HasTotalCount(r) == "Total-Count" \in DOMAIN r.header
TotalCountOf(r) == r.header["Total-Count"][1]

\* a query with extra parameters, the extra ones replacing its own
Merged(q, extra) ==
    [k \in DOMAIN q \cup DOMAIN extra |-> IF k \in DOMAIN extra THEN extra[k] ELSE q[k]]

CallKeys == {"page", "pageSize", "random"}

-----------------------------------------------------------------------------
(* Claims *)

AllReturned == call.op = "All" /\ ret.done
AllServedSucceed == \A i \in 1..Len(served) : Succeeds(served[i])

\* C1, as claimed: an All() whose fetches all succeed returns, with a nil
\* error, the records of the pages in page order after exactly one request per
\* page, having gone on after every page that carries a Link entry with
\* rel="next" and stopped at the first page that carries none.
C1_AllDrainsEveryNextEntry ==
    (AllReturned /\ AllServedSucceed) =>
        /\ served # << >>
        /\ ret.err = NoErr
        /\ ret.cards.elems = Concat(served, Len(served))
        /\ Len(reqs) = Len(served)
        /\ \A i \in 1..(Len(served) - 1) : HasNextEntry(served[i])
        /\ ~HasNextEntry(Last(served))

\* C1, amended: the same, with "links on" for "carries a Link entry with
\* rel="next"": the entry is one of the first value of the page's Link header,
\* the last of them when there are several, and its URL is not empty.
C1_AllDrainsLinkedPages ==
    (AllReturned /\ AllServedSucceed) =>
        /\ served # << >>
        /\ ret.err = NoErr
        /\ ret.cards.elems = Concat(served, Len(served))
        /\ Len(reqs) = Len(served)
        /\ \A i \in 1..(Len(served) - 1) : LinksOn(served[i])
        /\ ~LinksOn(Last(served))

C1_Witness ==
    /\ AllReturned /\ AllServedSucceed
    /\ Len(served) = 3
    /\ \A i \in 1..3 : Records(served[i]) # << >>
    /\ Len(ret.cards.elems) >= 4

\* C2: when a page fetch of All() fails, All() has returned nil records and
\* the error of that fetch, whatever the earlier pages held, and the failed
\* fetch is its last one.
C2_AllFailsWithoutRecords ==
    \A i \in 1..Len(served) :
        (call.op = "All" /\ ~Succeeds(served[i])) =>
            /\ ret.done
            /\ i = Len(served)
            /\ ret.cards = NilSlice
            /\ ret.err = ErrorOf(served[i])
            /\ ret.err # NoErr

C2_Witness ==
    /\ AllReturned
    /\ Len(served) = 3
    /\ Records(served[1]) # << >> /\ Records(served[2]) # << >>
    /\ ~Succeeds(served[3])
    /\ allCards.elems # << >>
    /\ ret.cards = NilSlice /\ ret.err = "DecodeError"

NewInvocation == nops' = nops + 1
Mutates == NewInvocation /\ call'.op \in {"Where", "OrderBy"}

\* C3: right after c = q.Copy(), c holds exactly the pairs of q; and from then
\* on no Where or OrderBy on c changes q and none on q changes c.
C3_CopyIsIndependent ==
    /\ [](call.op = "Copy" => heap[ret.q] = heap[call.q])
    /\ [][\A p \in copies :
            /\ (Mutates /\ call'.q = p[2]) => heap'[p[1]] = heap[p[1]]
            /\ (Mutates /\ call'.q = p[1]) => heap'[p[2]] = heap[p[2]]]_vars

C3_Witness ==
    \E p \in copies :
        /\ prev.op = "Where" /\ prev.q = p[1]
        /\ call.op = "Where" /\ call.q = p[2]
        /\ prev.column = call.column /\ prev.value # call.value
        /\ heap[p[1]][prev.column] = prev.value
        /\ heap[p[2]][call.column] = call.value

\* C4: a Where(a, v2) that follows a Where(a, v1) on the same query leaves the
\* query with the keys it had, a mapped to v2 and every other key as it was.
C4_WhereLastWriteWins ==
    [][(/\ call.op = "Where"
        /\ NewInvocation
        /\ call'.op = "Where"
        /\ call'.q = call.q
        /\ call'.column = call.column)
       => LET q == call.q
              a == call.column
          IN  /\ DOMAIN heap'[q] = DOMAIN heap[q]
              /\ heap'[q][a] = call'.value
              /\ \A k \in DOMAIN heap[q] \ {a} : heap'[q][k] = heap[q][k]]_vars

C4_Witness ==
    /\ prev.op = "Where" /\ call.op = "Where"
    /\ prev.q = call.q /\ prev.column = call.column
    /\ prev.value # call.value
    /\ heap[call.q][call.column] = call.value
    /\ Cardinality(DOMAIN heap[call.q]) >= 2

\* the parameters of the request are exactly the pairs of q and those of extra
CarriesAll(url, q, extra) ==
    LET params == ParamsOf(url)
    IN  /\ IsCardsURL(url)
        /\ DOMAIN params = DOMAIN q \cup DOMAIN extra
        /\ \A k \in DOMAIN q : params[k] = q[k]
        /\ \A k \in DOMAIN extra : params[k] = extra[k]

\* the parameters of the request are the pairs of extra and those pairs of q
\* whose key is not one of extra
CarriesMerged(url, q, extra) ==
    IsCardsURL(url) /\ ParamsOf(url) = Merged(q, extra)

PageSExtra == ("page" :> Decimal[call.pageNum]) @@ ("pageSize" :> Decimal[call.pageSize])

\* what PageS returns: when the fetch succeeds, the page's records with the
\* integer of the Total-Count header (of its first value) when that is a
\* numeral, and with the number of the page's records when there is no such
\* header
PageSReturnsCount ==
    LET r == served[1]
    IN  /\ (Succeeds(r) /\ ~HasTotalCount(r)) =>
              /\ ret.err = NoErr
              /\ ret.cards.elems = Records(r)
              /\ ret.count = Len(Records(r))
        /\ (Succeeds(r) /\ HasTotalCount(r) /\ TotalCountOf(r) \in DOMAIN Numerals) =>
              /\ ret.err = NoErr
              /\ ret.cards.elems = Records(r)
              /\ ret.count = Numerals[TotalCountOf(r)]

\* C5, as claimed: PageS(n, s) issues one request, whose parameters are the
\* pairs of the persisted query and page=n and pageSize=s, and returns the
\* page's records with the Total-Count value, or their number without one.
C5_PageSSendsEveryPair ==
    call.op = "PageS" =>
        /\ Len(reqs) = 1 /\ Len(served) = 1
        /\ CarriesAll(reqs[1], heap[call.q], PageSExtra)
        /\ PageSReturnsCount

\* C5, amended: the parameters of the one request are page=n, pageSize=s and
\* the pairs of the persisted query under every other key; the rest as claimed.
C5_PageSRequestAndCount ==
    call.op = "PageS" =>
        /\ Len(reqs) = 1 /\ Len(served) = 1
        /\ CarriesMerged(reqs[1], heap[call.q], PageSExtra)
        /\ PageSReturnsCount

C5_Witness ==
    /\ call.op = "PageS" /\ call.pageNum = 2 /\ call.pageSize = 50
    /\ heap[call.q] # << >>
    /\ Succeeds(served[1]) /\ HasTotalCount(served[1])
    /\ Len(Records(served[1])) = 2
    /\ ret.count = 42 /\ ret.err = NoErr

\* C6: PageS on a response whose Total-Count header (its first value) is no
\* numeral returns an error, nil records and the count 0, though the fetch
\* of the page succeeded.
C6_PageSBadTotalCount ==
    (/\ call.op = "PageS"
     /\ Succeeds(served[1])
     /\ HasTotalCount(served[1])
     /\ TotalCountOf(served[1]) \notin DOMAIN Numerals)
    => /\ ret.err # NoErr
       /\ ret.cards = NilSlice
       /\ ret.count = 0

C6_Witness ==
    /\ call.op = "PageS"
    /\ Succeeds(served[1])
    /\ HasTotalCount(served[1])
    /\ TotalCountOf(served[1]) = <<"4", "2", "x">>
    /\ Records(served[1]) # << >>
    /\ ret.err # NoErr /\ ret.cards = NilSlice

RandomExtra == ("random" :> "true") @@ ("pageSize" :> Decimal[call.pageSize])

\* what Random returns: the records of the response and a nil error when the
\* fetch succeeds, whatever the Total-Count header; the error of the fetch
\* and nil records when it fails
RandomReturnsRecords ==
    LET r == served[1]
    IN  /\ Succeeds(r) =>
              /\ ret.err = NoErr
              /\ ret.cards.elems = Records(r)
              /\ ret.count = 0
        /\ ~Succeeds(r) => (ret.err = ErrorOf(r) /\ ret.cards = NilSlice)

\* C7, as claimed: Random(c) issues one request, whose parameters are the
\* pairs of the persisted query and random=true and pageSize=c, and returns
\* the records of its response whatever the Total-Count header.
C7_RandomSendsEveryPair ==
    call.op = "Random" =>
        /\ Len(reqs) = 1 /\ Len(served) = 1
        /\ CarriesAll(reqs[1], heap[call.q], RandomExtra)
        /\ RandomReturnsRecords

\* C7, amended: the parameters of the one request are random=true,
\* pageSize=c and the pairs of the persisted query under every other key;
\* the rest as claimed.
C7_RandomRequestAndRecords ==
    call.op = "Random" =>
        /\ Len(reqs) = 1 /\ Len(served) = 1
        /\ CarriesMerged(reqs[1], heap[call.q], RandomExtra)
        /\ RandomReturnsRecords

C7_Witness ==
    /\ call.op = "Random"
    /\ heap[call.q] # << >>
    /\ Succeeds(served[1])
    /\ HasTotalCount(served[1])
    /\ TotalCountOf(served[1]) = <<"x">>
    /\ ret.err = NoErr
    /\ Len(ret.cards.elems) = 2

\* C8, as claimed: no persisted query mapping ever holds page, pageSize or
\* random.
C8_NoCallKeysPersisted ==
    \A i \in Queries : DOMAIN heap[i] \cap CallKeys = {}

\* C8, amended: a persisted query mapping comes to hold page, pageSize or
\* random only through a Where with that attribute on it, or through the
\* Copy of a mapping that holds it; All, Page, PageS and Random add none.
C8_OnlyWherePersistsCallKeys ==
    [][\A i \in 1..Len(heap'), k \in CallKeys :
          (k \in DOMAIN heap'[i] /\ (i > Len(heap) \/ k \notin DOMAIN heap[i]))
          => \/ NewInvocation /\ call'.op = "Where" /\ call'.q = i /\ call'.column = k
             \/ NewInvocation /\ call'.op = "Copy" /\ ret'.q = i
                  /\ k \in DOMAIN heap[call'.q]]_vars

C8_Witness ==
    /\ call.op = "PageS"
    /\ {"page", "pageSize"} \subseteq DOMAIN ParamsOf(reqs[1])
    /\ prev.op = "Where" /\ prev.q = call.q
    /\ DOMAIN heap[call.q] \cap CallKeys = {}

\* All's loop goes on: it is about to issue a further request
AllContinues == call.op = "All" /\ pc = "loop" /\ nextURL # << >>

\* C9, as claimed: after a successful page fetch All() goes on exactly when
\* the page's Link header has an entry with rel="next".
C9_ContinuesIffNextEntry ==
    (call.op = "All" /\ served # << >> /\ Succeeds(Last(served))) =>
        (AllContinues <=> HasNextEntry(Last(served)))

\* C9, amended: after a successful page fetch All() goes on exactly when the
\* page links on (the last entry with rel="next" of the first value of its
\* Link header has a URL that is not empty), whatever the records of this and
\* the earlier pages.
C9_ContinuesIffLinked ==
    (call.op = "All" /\ served # << >> /\ Succeeds(Last(served))) =>
        (AllContinues <=> LinksOn(Last(served)))

C9_Witness ==
    /\ Len(served) = 2
    /\ Succeeds(served[1]) /\ Records(served[1]) # << >>
    /\ Succeeds(served[2]) /\ Records(served[2]) = << >>
    /\ LinksOn(served[2])
    /\ AllContinues

\* C10: decodeCards on a body that decodes returns the single record alone
\* when the single-record slot is populated, also beside a populated list
\* slot, and otherwise the list slot as it is.
C10_DecodeNormalises ==
    LET b == served[1].body
    IN  (call.op = "decodeCards" /\ b.read /\ b.valid) =>
            /\ ret.err = NoErr
            /\ b.card # NoCard => ret.cards = Slice(<<b.card>>)
            /\ b.card = NoCard => ret.cards = b.cards

C10_Witness ==
    LET b == served[1].body
    IN  /\ call.op = "decodeCards"
        /\ b.card = "c1" /\ b.cards = Slice(<<"c2", "c3">>)
        /\ ret.cards = Slice(<<"c1">>)

\* C11: Page(n) issues the one request PageS(n, 100) issues on the same query
\* (page=n, pageSize=100 and the query's other pairs), and returns the
\* records, count and error PageS(n, 100) returns for the same response.
C11_PageIsPageS100 ==
    call.op = "Page" =>
        /\ reqs = <<PageSURL(heap[call.q], call.pageNum, 100)>>
        /\ CarriesMerged(reqs[1], heap[call.q],
                         ("page" :> Decimal[call.pageNum]) @@ ("pageSize" :> "100"))
        /\ Len(served) = 1
        /\ ret = PageSRet(fetchCards(served[1]))

C11_Witness ==
    /\ call.op = "Page" /\ call.pageNum = 2
    /\ "pageSize" \in DOMAIN heap[call.q]
    /\ ParamsOf(reqs[1])["pageSize"] = "100"
    /\ Succeeds(served[1]) /\ HasTotalCount(served[1])
    /\ Len(Records(served[1])) = 1
    /\ ret.count = 42 /\ ret.err = NoErr

\* http.Get handed back a response, so its body was acquired
Acquired(r) == r.err = NoErr

\* C12: whenever All, Page, PageS or Random has returned, and whenever All()
\* is at the head of its loop, no response body the call acquired is open:
\* each was closed before its fetch returned, whether the fetch succeeded or
\* failed with an API, read or decode error.
C12_BodiesReleased ==
    (ret.done \/ pc = "loop") => open = {}

C12_Witness ==
    /\ call.op = "All" /\ ret.done
    /\ Len(served) = 3
    /\ \A i \in 1..3 : Acquired(served[i])
    /\ Succeeds(served[1]) /\ Succeeds(served[2])
    /\ ErrorOf(served[3]) = "APIError" /\ ret.err = "APIError"
    /\ open = {}

AllRunning == call.op = "All" /\ ~ret.done

\* C13, as claimed: All() returns once a fetch has failed or a page fetched
\* carries no Link entry with rel="next"; and as long as every page fetched
\* carries such an entry All() has not returned and is about to issue a
\* further request.
C13_ReturnsIffNoNextEntry ==
    /\ (call.op = "All" /\ \E i \in 1..Len(served) :
            ~Succeeds(served[i]) \/ ~HasNextEntry(served[i])) ~> AllReturned
    /\ [](call.op = "All" =>
            \/ \E i \in 1..Len(served) :
                  ~Succeeds(served[i]) \/ ~HasNextEntry(served[i])
            \/ AllRunning /\ AllContinues)

\* C13, amended: the same, with "links on" for "carries a Link entry with
\* rel="next"".  All() returns once a fetch has failed or a page fetched does
\* not link on; as long as every page fetched links on, All() has not returned
\* and its loop condition holds, whatever the number of requests so far.
C13_ReturnsIffChainEnds ==
    /\ (call.op = "All" /\ \E i \in 1..Len(served) :
            ~Succeeds(served[i]) \/ ~LinksOn(served[i])) ~> AllReturned
    /\ [](call.op = "All" =>
            \/ \E i \in 1..Len(served) :
                  ~Succeeds(served[i]) \/ ~LinksOn(served[i])
            \/ AllRunning /\ AllContinues)

C13_Witness ==
    /\ AllReturned /\ ret.err = NoErr
    /\ Len(served) = 3
    /\ LinksOn(served[1]) /\ LinksOn(served[2])
    /\ Succeeds(served[3]) /\ ~LinksOn(served[3])

FetchOps == {"All", "Page", "PageS", "Random"}

\* C14: no step of All, Page, PageS or Random (the call's start, each of its
\* fetches, its return; on success and on every error path) changes a
\* persisted query mapping: every mapping holds after the step exactly the
\* pairs it held before.
C14_FetchLeavesQueryUnchanged ==
    [][call'.op \in FetchOps => heap' = heap]_vars

C14_Witness ==
    /\ call.op = "Random" /\ ret.done /\ ret.err # NoErr
    /\ prev.op = "Where" /\ prev.q = call.q
    /\ heap[call.q] = (CardSet :> "Mythic Rare")
    /\ ParamsOf(reqs[1]) =
          (CardSet :> "Mythic Rare") @@ ("random" :> "true") @@ ("pageSize" :> "10")

DecodeSucceeded == call.op = "decodeCards" /\ ret.err = NoErr

\* C15, as claimed: the list decodeCards returns on success is never null.
C15_DecodeNeverNull ==
    DecodeSucceeded => ~ret.cards.isNil

\* C15, amended: the list decodeCards returns on success is null exactly when
\* the body has no single record and its list slot is null (the member is
\* absent or null); a body with no single record and an empty list yields an
\* empty list that is not null.
C15_DecodeNullIffNoSlot ==
    LET b == served[1].body
    IN  DecodeSucceeded =>
            /\ ret.cards.isNil <=> (b.card = NoCard /\ b.cards.isNil)
            /\ (b.card = NoCard /\ b.cards = Slice(<< >>)) => ret.cards = Slice(<< >>)

C15_Witness ==
    LET b == served[1].body
    IN  /\ DecodeSucceeded
        /\ b.card = NoCard /\ b.cards = NilSlice
        /\ ret.cards = NilSlice

\* the comma-separated entries of a header value, in order
EntrySeq(value) ==
    LET parts == Split(value, ",")
    IN  [i \in 1..Len(parts) |-> TrimLeft(parts[i])]

\* the entry reads <u>; rel="next", alone or followed by further parameters
ReadsNext(e, u) ==
    LET l == Lnk(u, "next")
    IN  /\ Len(e) >= Len(l)
        /\ SubSeq(e, 1, Len(l)) = l
        /\ Len(e) > Len(l) => e[Len(l) + 1] = ";"
HasRelNext(e) == \E u \in LinkURLs : ReadsNext(e, u)
URLOfNext(e) == CHOOSE u \in LinkURLs : ReadsNext(e, u)

\* what All() did after its i-th page: the request that followed it went to
\* url; without a URL the drain ended with that page
WentOnTo(i, url) ==
    /\ i < Len(served) => reqs[i + 1] = url
    /\ i = Len(served) => nextURL = url
    /\ url = << >> => i = Len(served)

\* C16, as claimed: after a page whose Link header value holds several
\* comma-separated entries, one or more of them with rel="next", All() goes
\* on to the URL of the last entry with rel="next"; the entries with another
\* relation, before or after it, change nothing.
C16_LastNextEntryWins ==
    \A i \in 1..Len(served) :
        (/\ call.op = "All"
         /\ Succeeds(served[i])
         /\ "Link" \in DOMAIN served[i].header) =>
            LET es == EntrySeq(served[i].header["Link"][1])
                nexts == {j \in 1..Len(es) : HasRelNext(es[j])}
            IN  (Len(es) >= 2 /\ nexts # {}) => WentOnTo(i, URLOfNext(es[Max(nexts)]))

\* C16, amended: the same, an entry with rel="next" being a part of the
\* header value that reads <url>; rel="next" with the relation taken up to
\* the part's last double quote.
C16_LastNextPartWins ==
    \A i \in 1..Len(served) :
        (/\ call.op = "All"
         /\ Succeeds(served[i])
         /\ "Link" \in DOMAIN served[i].header) =>
            LET parts == Split(served[i].header["Link"][1], ",")
                nexts == {j \in 1..Len(parts) :
                             LinkOf(parts[j]).found /\ LinkOf(parts[j]).relation = <<"next">>}
            IN  (Len(parts) >= 2 /\ nexts # {}) => WentOnTo(i, LinkOf(parts[Max(nexts)]).url)

C16_Witness ==
    /\ call.op = "All" /\ Len(served) = 2 /\ Len(reqs) = 2
    /\ Succeeds(served[1])
    /\ served[1].header["Link"] =
          <<Lnk(U1, "next") \o Comma \o Lnk(U0, "prev") \o Comma \o Lnk(U2, "next")>>
    /\ reqs[2] = U2

\* C17: a fetch that fails is the last request of its call, which has returned
\* with an error; a call that has returned issues no request any more; Page,
\* PageS and Random issue at most one request; and between the steps of a
\* call every request issued has been answered and handled, so that All()
\* never has two requests outstanding.
C17_NoRetry ==
    /\ [](call.op \in FetchOps =>
            /\ Len(reqs) = Len(served)
            /\ call.op # "All" => Len(reqs) <= 1
            /\ \A i \in 1..Len(served) :
                  ~Succeeds(served[i]) =>
                      (i = Len(served) /\ ret.done /\ ret.err = ErrorOf(served[i])))
    /\ [][(call.op \in FetchOps /\ ret.done) => (reqs' = reqs \/ NewInvocation)]_vars

C17_Witness ==
    /\ call.op = "All" /\ ret.done
    /\ Len(served) = 2 /\ Len(reqs) = 2 /\ Len(reqs) < MaxReqs
    /\ Succeeds(served[1]) /\ LinksOn(served[1])
    /\ ErrorOf(served[2]) = "TransportError" /\ ret.err = "TransportError"

Builders == {"Where", "OrderBy"}

\* the pair a Where or OrderBy invocation writes
KeyOf(c) == IF c.op = "Where" THEN c.column ELSE "orderBy"
ValueOf(c) == IF c.op = "Where" THEN c.value ELSE c.column

\* C18: Where and OrderBy return the handle they were called on and allocate
\* no mapping; along a chain, a write through the handle a Where or OrderBy
\* returned shows through the handle that call was made on, beside the pair
\* that call wrote itself; Copy returns a handle of a new mapping.
C18_BuildersReturnReceiver ==
    /\ [](call.op \in Builders => ret.q = call.q)
    /\ [][(NewInvocation /\ call'.op \in Builders) => Len(heap') = Len(heap)]_vars
    /\ [][(/\ call.op \in Builders
           /\ NewInvocation
           /\ call'.op \in Builders
           /\ call'.q = ret.q)
          => /\ heap'[call.q][KeyOf(call')] = ValueOf(call')
             /\ KeyOf(call) # KeyOf(call') => heap'[ret'.q][KeyOf(call)] = ValueOf(call)]_vars
    /\ [][(NewInvocation /\ call'.op = "Copy")
          => (ret'.q # call'.q /\ ret'.q \notin 1..Len(heap))]_vars

C18_Witness ==
    /\ prev.op = "Where" /\ call.op = "OrderBy"
    /\ prev.q = call.q /\ ret.q = call.q
    /\ Len(heap) = 1
    /\ heap[call.q] = (CardSet :> "7") @@ ("orderBy" :> CardName)

\* the page's Link header has an entry with rel="next" in a second or later
\* value and none in its first value
NextOnlyInLaterValue(r) ==
    /\ "Link" \in DOMAIN r.header
    /\ Len(r.header["Link"]) >= 2
    /\ \A e \in EntriesOf(r.header["Link"][1]) : ~HasRelNext(e)
    /\ \E v \in 2..Len(r.header["Link"]) :
          \E e \in EntriesOf(r.header["Link"][v]) : IsNextEntry(e)

\* C19: a page fetched successfully whose only rel="next" entries sit in a
\* second or later value of its Link header is the last page of the drain:
\* All() issues no request after it and returns, with a nil error, the
\* records of the pages up to and including it.
C19_LaterLinkValuesIgnored ==
    /\ [](\A i \in 1..Len(served) :
            (call.op = "All" /\ Succeeds(served[i]) /\ NextOnlyInLaterValue(served[i])) =>
                /\ i = Len(served)
                /\ nextURL = << >>
                /\ ret.done =>
                      (ret.err = NoErr /\ ret.cards.elems = Concat(served, Len(served))))
    /\ (/\ call.op = "All" /\ served # << >>
        /\ Succeeds(Last(served)) /\ NextOnlyInLaterValue(Last(served))) ~> AllReturned
    /\ [][(/\ call.op = "All" /\ served # << >>
           /\ Succeeds(Last(served)) /\ NextOnlyInLaterValue(Last(served)))
          => reqs' = reqs]_vars

C19_Witness ==
    /\ AllReturned /\ ret.err = NoErr
    /\ Len(served) = 2
    /\ LinksOn(served[1])
    /\ NextOnlyInLaterValue(served[2])
    /\ served[2].header["Link"] = <<Lnk(U0, "prev"), Lnk(U2, "last"), Lnk(U1, "next")>>
    /\ ret.cards.elems = <<"c1", "c1">>

\* the places of the request URL where the key k stands, and its value there
KeyPlaces(url, k) == {i \in 3..Len(url) : i % 4 = 3 /\ Unescape(url[i]) = k}
OneValue(url, k, v) ==
    /\ Cardinality(KeyPlaces(url, k)) = 1
    /\ \A i \in KeyPlaces(url, k) : i + 2 <= Len(url) /\ Unescape(url[i + 2]) = v

\* C20: for a key the persisted query holds and the call sets as well, the
\* request of PageS (page, pageSize) and of Random (random, pageSize) carries
\* one value, the one of the call; the first request of All() carries for
\* page, pageSize and random the one value the persisted query holds.
C20_CallValueReplacesPersisted ==
    /\ call.op = "PageS" =>
          \A k \in DOMAIN heap[call.q] \cap DOMAIN PageSExtra :
              OneValue(reqs[1], k, PageSExtra[k]) /\ PageSExtra[k] # heap[call.q][k]
    /\ call.op = "Random" =>
          \A k \in DOMAIN heap[call.q] \cap DOMAIN RandomExtra :
              OneValue(reqs[1], k, RandomExtra[k]) /\ RandomExtra[k] # heap[call.q][k]
    /\ (call.op = "All" /\ reqs # << >>) =>
          \A k \in DOMAIN heap[call.q] \cap CallKeys :
              OneValue(reqs[1], k, heap[call.q][k])

C20_Witness ==
    /\ call.op = "PageS" /\ call.pageNum = 2 /\ call.pageSize = 50
    /\ prev.op = "Where" /\ prev.q = call.q
    /\ heap[call.q] = ("page" :> "7") @@ ("pageSize" :> "Mythic Rare")
    /\ ParamsOf(reqs[1]) = ("page" :> "2") @@ ("pageSize" :> "50")

====
